---- MODULE Spec2Model ----
(***************************************************************************)
(* Model of server.py of line-mcp-server: the Delivery Client              *)
(* (send_line_message), the protocol dispatcher (POST /mcp) and the        *)
(* webhook event extractor (POST /webhook).                                *)
(*                                                                         *)
(* A request is served from pc = "idle"; the handler's effects (outbound   *)
(* HTTP calls, the SendResult, the HTTP response) are request-scoped and   *)
(* are dropped when the response has been sent (Finish).  The credentials  *)
(* are read once at process start and never written.                       *)
(***************************************************************************)
EXTENDS Integers, Sequences, FiniteSets, TLC

VARIABLES CHANNEL_ACCESS_TOKEN, GROUP_ID, PERSONAL_USER_ID,
          pc, handler, request, delivery, calls, result, response, idx

vars == <<CHANNEL_ACCESS_TOKEN, GROUP_ID, PERSONAL_USER_ID,
          pc, handler, request, delivery, calls, result, response, idx>>

creds == <<CHANNEL_ACCESS_TOKEN, GROUP_ID, PERSONAL_USER_ID>>

(* ---------------------------------------------------------------------- *)
(* Bounds                                                                 *)
(* ---------------------------------------------------------------------- *)

\* longest "events" array of a webhook body
MaxEvents == 2

(* ---------------------------------------------------------------------- *)
(* Python values                                                          *)
(* ---------------------------------------------------------------------- *)

\* Python's None: an unset environment variable, a key dict.get() misses
None == "<None>"

\* bool(x) of a value that is None or a str
Truthy(x) == x # None /\ x # ""

\* Python's `a or b`
Or(a, b) == IF Truthy(a) THEN a ELSE b

\* what the messaging platform does with one outbound HTTP call
Outcomes == {"2xx", "non2xx", "transport"}

PUSH_URL == "https://api.line.me/v2/bot/message/push"
REPLY_URL == "https://api.line.me/v2/bot/message/reply"

\* str(e) of the RequestException of an outcome
ErrorText(outcome) ==
    IF outcome = "non2xx" THEN "HTTPError" ELSE "ConnectionError"

\* the SendResult of a request that did not reach the Delivery Client
NoResult == [k \in {} |-> ""]

\* json.dumps of a SendResult: the members in insertion order, the booleans
\* as true / false
KeyOrder == <<"success", "message", "error", "group_id">>

RECURSIVE DumpFrom(_, _)
DumpFrom(d, k) ==
    IF k > Len(KeyOrder) THEN <<>>
    ELSE IF KeyOrder[k] \in DOMAIN d
         THEN <<  <<KeyOrder[k],
                    IF KeyOrder[k] = "success"
                    THEN (IF d[KeyOrder[k]] THEN "true" ELSE "false")
                    ELSE d[KeyOrder[k]]>>  >> \o DumpFrom(d, k + 1)
         ELSE DumpFrom(d, k + 1)

JsonDumps(d) == DumpFrom(d, 1)

(* ---------------------------------------------------------------------- *)
(* Delivery Client                                                        *)
(* ---------------------------------------------------------------------- *)

\* target_group_id = group_id or GROUP_ID
target_group_id(group_id) == Or(group_id, GROUP_ID)

\* variant: the check written as `if target_group_id is None`
RecipientMissing_IsNone(t) == t = None

\* `if not target_group_id`
RecipientMissing(t) == ~Truthy(t)

\* `if not CHANNEL_ACCESS_TOKEN`
TokenMissing == ~Truthy(CHANNEL_ACCESS_TOKEN)

\* the push call: url, bearer token and the JSON envelope
PushCall(message, to, outcome) ==
    [url |-> PUSH_URL, bearer |-> CHANNEL_ACCESS_TOKEN,
     to |-> to, replyToken |-> None, text |-> <<message>>,
     outcome |-> outcome]

\* variant: raise_for_status() left out, only a transport failure raises
PushRaises_TransportOnly(outcome) == outcome = "transport"

\* requests.post raises on a transport failure, raise_for_status on non-2xx
PushRaises(outcome) == outcome # "2xx"

\* variant: the success result without the recipient used
SuccessResult_NoRecipient(to) ==
    [success |-> TRUE, message |-> "Message sent successfully"]

SuccessResult(to) ==
    [success |-> TRUE, message |-> "Message sent successfully",
     group_id |-> to]

FailureResult(error) == [success |-> FALSE, error |-> error]

\* send_line_message(message, group_id): the SendResult and the outbound
\* calls it performed, the platform answering with `outcome`
send_line_message(message, group_id, outcome) ==
    LET t == target_group_id(group_id) IN
    IF RecipientMissing(t)
    THEN [result |-> FailureResult("GROUP_ID is not configured"),
          calls |-> <<>>]
    ELSE IF TokenMissing
    THEN [result |-> FailureResult("CHANNEL_ACCESS_TOKEN is not configured"),
          calls |-> <<>>]
    ELSE IF PushRaises(outcome)
    THEN [result |-> FailureResult(ErrorText(outcome)),
          calls |-> <<PushCall(message, t, outcome)>>]
    ELSE [result |-> SuccessResult(t),
          calls |-> <<PushCall(message, t, outcome)>>]

(* ---------------------------------------------------------------------- *)
(* Init                                                                   *)
(* ---------------------------------------------------------------------- *)

NoRequest == [json |-> "none"]
NoResponse == [status |-> 0, shape |-> "none"]

Init ==
    /\ CHANNEL_ACCESS_TOKEN \in {None, "tok"}
    /\ GROUP_ID \in {None, "", "G1"}
    /\ PERSONAL_USER_ID \in {None, "U0"}
    /\ pc = "idle"
    /\ handler = "none"
    /\ request = NoRequest
    /\ delivery = <<>>
    /\ calls = <<>>
    /\ result = NoResult
    /\ response = NoResponse
    /\ idx = 0

\* a direct invocation of the Delivery Client
DeliverMessages == {"", "hi"}
DeliverRecipients == {None, "", "G2"}

SendLineMessage ==
    /\ pc = "idle"
    /\ \E message \in DeliverMessages, group_id \in DeliverRecipients,
          outcome \in Outcomes :
          LET r == send_line_message(message, group_id, outcome) IN
          /\ request' = [json |-> "call", message |-> message,
                         group_id |-> group_id]
          /\ delivery' = <<[message |-> message, group_id |-> group_id]>>
          /\ calls' = r.calls
          /\ result' = r.result
    /\ handler' = "send_line_message"
    /\ response' = NoResponse
    /\ pc' = "done"
    /\ UNCHANGED <<creds, idx>>

(* ---------------------------------------------------------------------- *)
(* Protocol dispatcher: POST /mcp                                         *)
(* ---------------------------------------------------------------------- *)

\* the ToolDescriptor of tools/list
ToolDescriptor ==
    [name |-> "send_line_message",
     properties |-> {"message", "target", "group_id", "user_id"},
     target_enum |-> {"group", "personal"},
     required |-> {"message"}]

InitializeResponse ==
    [status |-> 200, shape |-> "initialize", code |-> 0,
     body |-> <<"2024-11-05", "LINE MCP Server", "2.0.0">>]

ToolsListResponse ==
    [status |-> 200, shape |-> "tools", code |-> 0,
     body |-> <<ToolDescriptor>>]

\* {"content": [{"type": "text", "text": json.dumps(result)}]}
ContentResponse(res) ==
    [status |-> 200, shape |-> "content", code |-> 0, body |-> JsonDumps(res)]

MethodNotFound(method) ==
    [status |-> 404, shape |-> "error", code |-> -32601,
     body |-> <<"Method not found", method>>]

InternalError ==
    [status |-> 500, shape |-> "error", code |-> -32603,
     body |-> <<"Internal error">>]

\* f"Unknown tool: {tool_name}"
UnknownToolError(tool_name) ==
    IF tool_name = None THEN "Unknown tool: None"
    ELSE "Unknown tool: other_tool"

\* variant: the tools/list branch compares with a misspelt method name
McpBranch_NoList(method) ==
    CASE method = "initialize" -> "initialize"
      [] method = "tools/call" -> "tools/call"
      [] OTHER -> "not_found"

\* the if / elif chain on `method`
McpBranch(method) ==
    CASE method = "initialize" -> "initialize"
      [] method = "tools/list" -> "tools/list"
      [] method = "tools/call" -> "tools/call"
      [] OTHER -> "not_found"

\* arguments.get("target", "group")
TargetOf(target) == IF target = None THEN "group" ELSE target

\* variant: the personal branch falls back to the default group
target_id_GroupDefault(target, group_id, user_id) ==
    IF target = "personal" THEN Or(user_id, GROUP_ID)
    ELSE Or(group_id, GROUP_ID)

\* the resolved recipient of a tools/call
target_id(target, group_id, user_id) ==
    IF target = "personal" THEN Or(user_id, PERSONAL_USER_ID)
    ELSE Or(group_id, GROUP_ID)

\* variant: the personal branch without its `if not target_id` check
PersonalMissing_Unchecked(target, t) == FALSE

\* `if not target_id` of the personal branch
PersonalMissing(target, t) == target = "personal" /\ ~Truthy(t)

NoDelivery(resp) ==
    [response |-> resp, delivery |-> <<>>, calls |-> <<>>,
     result |-> NoResult]

\* the send_line_message branch of tools/call
call_send_line_message(b, outcome) ==
    LET target == TargetOf(b.target)
        t == target_id(target, b.group_id, b.user_id)
        r == send_line_message(b.message, t, outcome)
    IN  IF ~Truthy(b.message)
        THEN NoDelivery(ContentResponse(
                 FailureResult("message parameter is required")))
        ELSE IF PersonalMissing(target, t)
        THEN NoDelivery(ContentResponse(
                 FailureResult("PERSONAL_USER_ID is not configured")))
        ELSE [response |-> ContentResponse(r.result),
              delivery |-> <<[message |-> b.message, group_id |-> t]>>,
              calls |-> r.calls,
              result |-> r.result]

\* variant: an unknown tool answered as an unknown method
tools_call_UnknownAs404(b, outcome) ==
    IF b.params = "null" THEN NoDelivery(InternalError)
    ELSE IF b.name = "send_line_message"
    THEN IF b.arguments = "null" THEN NoDelivery(InternalError)
         ELSE call_send_line_message(b, outcome)
    ELSE NoDelivery(MethodNotFound(b.name))

\* the tools/call branch
tools_call(b, outcome) ==
    IF b.params = "null" THEN NoDelivery(InternalError)
    ELSE IF b.name = "send_line_message"
    THEN IF b.arguments = "null" THEN NoDelivery(InternalError)
         ELSE call_send_line_message(b, outcome)
    ELSE NoDelivery(ContentResponse(FailureResult(UnknownToolError(b.name))))

\* mcp_endpoint: the whole handler on the body b
mcp_endpoint(b, outcome) ==
    IF b.json # "object" THEN NoDelivery(InternalError)
    ELSE CASE McpBranch(b.method) = "initialize" ->
                NoDelivery(InitializeResponse)
           [] McpBranch(b.method) = "tools/list" ->
                NoDelivery(ToolsListResponse)
           [] McpBranch(b.method) = "tools/call" -> tools_call(b, outcome)
           [] OTHER -> NoDelivery(MethodNotFound(b.method))

\* the bodies POST /mcp is given.  A member the handler never reads is None.
McpBody(j, method, params, name, arguments, msg, tgt, gid, uid) ==
    [json |-> j, method |-> method, params |-> params, name |-> name,
     arguments |-> arguments, message |-> msg, target |-> tgt,
     group_id |-> gid, user_id |-> uid]

Methods == {None, "initialize", "tools/list", "tools/call", "unknown_method"}
ToolNames == {None, "send_line_message", "other_tool"}
Messages == {None, "", "hi"}
Targets == {None, "group", "personal", "other"}
GroupIds == {None, "", "G2"}
UserIds == {None, "", "U2"}

McpBodies ==
    \* not JSON, or JSON that is not an object
    { McpBody(j, None, "absent", None, "absent", None, None, None, None) :
        j \in {"invalid", "array"} }
    \cup
    \* an object without "params", or whose "params" is null
    { McpBody("object", m, p, None, "absent", None, None, None, None) :
        m \in Methods, p \in {"absent", "null"} }
    \cup
    \* "params" without "arguments", or whose "arguments" is null
    { McpBody("object", m, "object", n, a, None, None, None, None) :
        m \in Methods, n \in ToolNames, a \in {"absent", "null"} }
    \cup
    \* a tools/call with "arguments"
    { McpBody("object", "tools/call", "object", n, "object",
              a[1], a[2], a[3], a[4]) :
        n \in ToolNames,
        a \in Messages \X Targets \X GroupIds \X UserIds }

McpRequest ==
    /\ pc = "idle"
    /\ \E b \in McpBodies, outcome \in Outcomes :
          LET r == mcp_endpoint(b, outcome) IN
          /\ request' = b
          /\ delivery' = r.delivery
          /\ calls' = r.calls
          /\ result' = r.result
          /\ response' = r.response
    /\ handler' = "mcp"
    /\ pc' = "done"
    /\ UNCHANGED <<creds, idx>>

(* ---------------------------------------------------------------------- *)
(* Webhook event extractor: POST /webhook                                 *)
(* ---------------------------------------------------------------------- *)

\* str.lower() on the characters the texts are made of
Lower(c) ==
    CASE c = "U" -> "u"
      [] c = "I" -> "i"
      [] c = "D" -> "d"
      [] OTHER -> c

LowerText(s) == [k \in 1..Len(s) |-> Lower(s[k])]

\* `sub in s`
Contains(sub, s) ==
    \E k \in 1..(Len(s) - Len(sub) + 1) :
        SubSeq(s, k, k + Len(sub) - 1) = sub

USERID == <<"u", "s", "e", "r", "i", "d">>

\* event["message"]["text"]: absent, a string, or a JSON number
TextAbsent == [tag |-> "absent", s |-> <<>>]
TextString(s) == [tag |-> "string", s |-> s]
TextNumber == [tag |-> "number", s |-> <<>>]

\* event.get("message", {}).get("text", "")
message_text(e) == IF e.text.tag = "absent" THEN TextString(<<>>) ELSE e.text

\* message_text.lower() raises on a value that is not a str
LowerRaises(e) == message_text(e).tag # "string"

\* variant: the substring test without .lower()
AsksUserId_CaseSensitive(e) == Contains(USERID, message_text(e).s)

\* "userid" in message_text.lower()
AsksUserId(e) == Contains(USERID, LowerText(message_text(e).s))

\* reply_message = f"<prefix>{user_id}"
\* (the Japanese prefix, "your User ID is: ", is written in ASCII)
reply_message(user_id) == <<"anata no User ID wa: ", user_id>>

ReplyCall(e, outcome) ==
    [url |-> REPLY_URL, bearer |-> CHANNEL_ACCESS_TOKEN,
     to |-> None, replyToken |-> e.replyToken,
     text |-> reply_message(e.userId), outcome |-> outcome]

\* variant: the reply followed by raise_for_status()
ReplyRaises_OnStatus(outcome) == outcome # "2xx"

\* requests.post raises on a transport failure only: the webhook does not
\* call raise_for_status
ReplyRaises(outcome) == outcome = "transport"

\* one iteration of `for event in events`: the calls it performs and
\* whether it raises
process_event(e, outcome) ==
    IF e.type # "message" THEN [calls |-> <<>>, raised |-> FALSE]
    ELSE IF ~Truthy(e.userId) THEN [calls |-> <<>>, raised |-> FALSE]
    ELSE IF LowerRaises(e) THEN [calls |-> <<>>, raised |-> TRUE]
    ELSE IF ~AsksUserId(e) THEN [calls |-> <<>>, raised |-> FALSE]
    ELSE IF ~Truthy(e.replyToken) THEN [calls |-> <<>>, raised |-> FALSE]
    ELSE [calls |-> <<ReplyCall(e, outcome)>>,
          raised |-> ReplyRaises(outcome)]

WebhookOk ==
    [status |-> 200, shape |-> "webhook", code |-> 0, body |-> <<"ok">>]

WebhookError ==
    [status |-> 500, shape |-> "webhook", code |-> 0, body |-> <<"error">>]

Event(type, userId, text, replyToken) ==
    [type |-> type, userId |-> userId, text |-> text,
     replyToken |-> replyToken]

Texts ==
    {TextAbsent, TextNumber,
     TextString(<<"u", "s", "e", "r", " ", "i", "d">>),
     TextString(<<"U", "s", "e", "r", "I", "D", "?">>)}

Events ==
    { Event("message", u, t, r) :
        u \in {None, "U1", "U2"}, t \in Texts, r \in {None, "R1"} }
    \cup
    { Event("follow", "U1", TextString(<<"U", "s", "e", "r", "I", "D", "?">>),
            "R1") }

EventLists == UNION { [1..n -> Events] : n \in 0..MaxEvents }

\* body = await request.json(); events = body.get("events", [])
WebhookReceive ==
    /\ pc = "idle"
    /\ \/ /\ \E j \in {"invalid", "array"} :
               request' = [json |-> j, events |-> <<>>]
          /\ response' = WebhookError
          /\ pc' = "done"
       \/ /\ \E evs \in EventLists :
               request' = [json |-> "object", events |-> evs]
          /\ response' = NoResponse
          /\ pc' = "webhook_loop"
    /\ handler' = "webhook"
    /\ UNCHANGED <<creds, delivery, calls, result, idx>>

\* one iteration of the loop; an exception leaves through `except Exception`
WebhookEvent ==
    /\ pc = "webhook_loop"
    /\ idx < Len(request.events)
    /\ \E outcome \in Outcomes :
          LET r == process_event(request.events[idx + 1], outcome) IN
          /\ calls' = calls \o r.calls
          /\ IF r.raised
             THEN response' = WebhookError /\ pc' = "done"
             ELSE UNCHANGED <<response, pc>>
    /\ idx' = idx + 1
    /\ UNCHANGED <<creds, handler, request, delivery, result>>

\* return JSONResponse({"status": "ok"})
WebhookReturn ==
    /\ pc = "webhook_loop"
    /\ idx = Len(request.events)
    /\ response' = WebhookOk
    /\ pc' = "done"
    /\ UNCHANGED <<creds, handler, request, delivery, calls, result, idx>>

\* the response has been sent: the request-scoped data are dropped
Finish ==
    /\ pc = "done"
    /\ pc' = "idle"
    /\ handler' = "none"
    /\ request' = NoRequest
    /\ delivery' = <<>>
    /\ calls' = <<>>
    /\ result' = NoResult
    /\ response' = NoResponse
    /\ idx' = 0
    /\ UNCHANGED creds

Next ==
    \/ SendLineMessage
    \/ McpRequest
    \/ WebhookReceive
    \/ WebhookEvent
    \/ WebhookReturn
    \/ Finish

Spec == Init /\ [][Next]_vars
(* ---------------------------------------------------------------------- *)
(* Properties                                                             *)
(* ---------------------------------------------------------------------- *)

\* the Delivery Client has been invoked and has returned
Delivered == pc = "done" /\ delivery # <<>>

\* a tools/call of send_line_message whose params and arguments are objects
IsSendCall ==
    /\ pc = "done" /\ handler = "mcp"
    /\ request.json = "object" /\ request.method = "tools/call"
    /\ request.params = "object" /\ request.name = "send_line_message"
    /\ request.arguments = "object"

FailureContent(error) == <<  <<"success", "false">>, <<"error", error>>  >>

\* C1 as stated: whenever the recipient argument of the Delivery Client is
\* empty or absent, whatever the credentials, the result has success=false
\* and no outbound call was performed.
C1_EmptyRecipientArgFails ==
    (Delivered /\ ~Truthy(delivery[1].group_id))
        => (result.success = FALSE /\ calls = <<>>)

\* C1 amended: whenever the recipient argument is empty or absent and no
\* default group identifier is configured either, the result has
\* success=false and no outbound call was performed.
C1_EmptyResolvedRecipientFails ==
    (Delivered /\ ~Truthy(delivery[1].group_id) /\ ~Truthy(GROUP_ID))
        => (/\ result.success = FALSE
            /\ result.error = "GROUP_ID is not configured"
            /\ calls = <<>>)

C1_Witness ==
    /\ Delivered /\ handler = "send_line_message"
    /\ delivery[1].group_id = "" /\ GROUP_ID = ""
    /\ CHANNEL_ACCESS_TOKEN = "tok"
    /\ result.success = FALSE /\ calls = <<>>

ResolvedRecipient ==
    IF request.target = "personal"
    THEN (IF Truthy(request.user_id) THEN request.user_id
          ELSE PERSONAL_USER_ID)
    ELSE (IF Truthy(request.group_id) THEN request.group_id ELSE GROUP_ID)

\* C3: in a tools/call of send_line_message with a non-empty message the
\* recipient of the outbound push is the resolved recipient (personal: the
\* user_id, else the default personal identifier, never the default group;
\* otherwise: the group_id, else the default group); message "hi" to target
\* "group" with default group "G1" delivers ("hi", "G1") and the content
\* serializes {success: true, message: "Message sent successfully",
\* group_id: "G1"}.
C3_PushGoesToResolvedRecipient ==
    (IsSendCall /\ Truthy(request.message)) =>
        /\ \A k \in DOMAIN delivery :
              delivery[k] = [message |-> request.message,
                             group_id |-> ResolvedRecipient]
        /\ \A k \in DOMAIN calls :
              /\ calls[k].url = PUSH_URL
              /\ calls[k].to = ResolvedRecipient
              /\ request.target = "personal" => calls[k].to # GROUP_ID
        /\ (/\ request.message = "hi" /\ request.target = "group"
            /\ request.group_id = None /\ GROUP_ID = "G1"
            /\ calls # <<>> /\ calls[1].outcome = "2xx")
              => (/\ delivery = <<[message |-> "hi", group_id |-> "G1"]>>
                  /\ calls[1].to = "G1" /\ calls[1].text = <<"hi">>
                  /\ response.status = 200
                  /\ response.shape = "content"
                  /\ response.body =
                        <<  <<"success", "true">>,
                            <<"message", "Message sent successfully">>,
                            <<"group_id", "G1">>  >>)

C3_Witness ==
    /\ IsSendCall /\ request.message = "hi" /\ request.target = "personal"
    /\ request.user_id = None /\ PERSONAL_USER_ID = "U0" /\ GROUP_ID = "G1"
    /\ Len(calls) = 1 /\ calls[1].to = "U0" /\ calls[1].outcome = "2xx"

\* C4: a tools/call of send_line_message with a non-empty message, target
\* "personal", no user_id and no default personal identifier answers
\* HTTP 200 with the in-band error "PERSONAL_USER_ID is not configured" and
\* performs no outbound call, also when a default group and a token are set.
C4_PersonalNotConfigured ==
    (/\ IsSendCall /\ Truthy(request.message)
     /\ request.target = "personal"
     /\ ~Truthy(request.user_id) /\ ~Truthy(PERSONAL_USER_ID))
        => (/\ response.status = 200
            /\ response.shape = "content"
            /\ response.body =
                  FailureContent("PERSONAL_USER_ID is not configured")
            /\ calls = <<>>
            /\ delivery = <<>>)

C4_Witness ==
    /\ IsSendCall /\ request.message = "hi" /\ request.target = "personal"
    /\ request.user_id = None /\ PERSONAL_USER_ID = None
    /\ GROUP_ID = "G1" /\ CHANNEL_ACCESS_TOKEN = "tok"
    /\ response.status = 200 /\ calls = <<>>

\* a POST /mcp body the handler decodes and reads without an exception
WellFormedMcp ==
    /\ request.json = "object"
    /\ request.method = "tools/call" =>
          /\ request.params # "null"
          /\ request.name = "send_line_message" => request.arguments # "null"

\* a tool-level failure: message missing or empty, recipient not configured,
\* unknown tool, or a delivery that failed
ToolLevelFailure ==
    /\ WellFormedMcp /\ request.method = "tools/call"
    /\ \/ request.name # "send_line_message"
       \/ ~Truthy(request.message)
       \/ ~Truthy(ResolvedRecipient)
       \/ ~Truthy(CHANNEL_ACCESS_TOKEN)
       \/ \E k \in DOMAIN calls : calls[k].outcome # "2xx"

\* C5: POST /mcp keeps its two error tiers apart: a tool-level failure
\* answers HTTP 200 with a content envelope holding success=false and no
\* JSON-RPC error object; a missing or unknown method answers HTTP 404 with
\* code -32601; HTTP 500 with code -32603 only when decoding or handling
\* raised.
C5_ErrorTiers ==
    (pc = "done" /\ handler = "mcp") =>
        /\ ToolLevelFailure
              => (/\ response.status = 200
                  /\ response.shape = "content"
                  /\ response.code = 0
                  /\ response.body[1] = <<"success", "false">>)
        /\ (/\ request.json = "object"
            /\ request.method \notin
                  {"initialize", "tools/list", "tools/call"})
              => (/\ response.status = 404
                  /\ response.shape = "error"
                  /\ response.code = -32601)
        /\ response.status = 500
              => (/\ ~WellFormedMcp
                  /\ response.shape = "error"
                  /\ response.code = -32603)
        /\ response.shape = "error" => response.status \in {404, 500}

C5_Witness ==
    /\ pc = "done" /\ handler = "mcp" /\ ToolLevelFailure
    /\ request.name = "other_tool"
    /\ response.status = 200 /\ response.shape = "content"

\* the event fulfils the auto-reply rule
Eligible(e) ==
    /\ e.type = "message"
    /\ Truthy(e.userId)
    /\ e.text.tag = "string"
    /\ \E k \in 1..Len(e.text.s) :
          /\ k + 5 <= Len(e.text.s)
          /\ [j \in 1..6 |-> Lower(e.text.s[k + j - 1])] = USERID
    /\ Truthy(e.replyToken)

\* the replies the rule asks for, one per eligible event, in array order
RECURSIVE ExpectedReplies(_)
ExpectedReplies(evs) ==
    IF evs = <<>> THEN <<>>
    ELSE (IF Eligible(Head(evs))
          THEN <<[replyToken |-> Head(evs).replyToken,
                  text |-> <<"anata no User ID wa: ", Head(evs).userId>>]>>
          ELSE <<>>) \o ExpectedReplies(Tail(evs))

Replies ==
    [k \in 1..Len(calls) |->
        [replyToken |-> calls[k].replyToken, text |-> calls[k].text]]

\* C6 as stated: for every webhook body the handler issues a reply for an
\* event exactly when the event is eligible, one per such event, in array
\* order, each with that event's user id, and no push call.
C6_ReplyPerEligibleEvent ==
    (pc = "done" /\ handler = "webhook")
        => (/\ Replies = ExpectedReplies(request.events)
            /\ \A k \in DOMAIN calls : calls[k].url = REPLY_URL)

\* C6 amended: the same, over the events the handler reached: the events up
\* to and including the first one whose processing raised (a reply call
\* failing in transport, or a message text that is not a string); later
\* events get no reply.
C6_ReplyPerEligibleEventReached ==
    handler = "webhook"
        => (/\ Replies = ExpectedReplies(SubSeq(request.events, 1, idx))
            /\ \A k \in DOMAIN calls : calls[k].url = REPLY_URL
            /\ (pc = "done" /\ response = WebhookOk)
                  => idx = Len(request.events))

C6_Witness ==
    /\ pc = "done" /\ handler = "webhook" /\ response = WebhookOk
    /\ Len(request.events) = 2 /\ Len(calls) = 2
    /\ calls[1].text = <<"anata no User ID wa: ", "U2">>
    /\ calls[2].text = <<"anata no User ID wa: ", "U1">>

\* every message text of the body is a string or absent
WellFormedWebhook ==
    /\ request.json = "object"
    /\ \A k \in DOMAIN request.events :
          request.events[k].text.tag # "number"

\* C7 as stated: for a well-formed body, whatever happens to each reply call
\* (success, non-2xx, transport failure) the handler processes all events
\* and answers HTTP 200 {status: ok}.
C7_ReplyOutcomeIgnored ==
    (pc = "done" /\ handler = "webhook" /\ WellFormedWebhook)
        => (response = WebhookOk /\ idx = Len(request.events))

\* C7 amended: for a well-formed body, whether each reply call succeeds or
\* is rejected with a non-2xx status, the handler processes all events and
\* answers HTTP 200 {status: ok}; a reply call that fails in transport
\* raises: the handler stops at that event and answers HTTP 500
\* {status: error}.
C7_ReplyStatusIgnored ==
    (pc = "done" /\ handler = "webhook" /\ WellFormedWebhook)
        => IF \E k \in DOMAIN calls : calls[k].outcome = "transport"
           THEN /\ response = WebhookError
                /\ calls[Len(calls)].outcome = "transport"
                /\ \A k \in 1..(Len(calls) - 1) :
                      calls[k].outcome # "transport"
                /\ Eligible(request.events[idx])
           ELSE /\ response = WebhookOk
                /\ idx = Len(request.events)

C7_Witness ==
    /\ pc = "done" /\ handler = "webhook" /\ WellFormedWebhook
    /\ Len(calls) = 2 /\ calls[1].outcome = "non2xx"
    /\ response = WebhookOk

\* C8: every SendResult of the Delivery Client has "message" and "group_id"
\* exactly when success=true and "error" exactly when success=false.
C8_MessageXorError ==
    \A k \in DOMAIN delivery :
        /\ "success" \in DOMAIN result
        /\ result.success = TRUE
              => DOMAIN result = {"success", "message", "group_id"}
        /\ result.success = FALSE
              => DOMAIN result = {"success", "error"}

C8_Witness ==
    /\ Delivered /\ result.success = TRUE
    /\ DOMAIN result = {"success", "message", "group_id"}

\* C9: whatever was served before, a tools/list call returns the one fixed
\* output holding the single send_line_message descriptor, performs no
\* outbound call and leaves the credentials unchanged.
C9_ToolsListPure ==
    [][(/\ pc = "idle" /\ handler' = "mcp"
        /\ request'.json = "object" /\ request'.method = "tools/list")
          => (/\ response' = [status |-> 200, shape |-> "tools", code |-> 0,
                              body |-> <<ToolDescriptor>>]
              /\ Len(response'.body) = 1
              /\ response'.body[1].name = "send_line_message"
              /\ calls' = <<>>
              /\ delivery' = <<>>
              /\ creds' = creds)]_vars

C9_Witness ==
    /\ pc = "done" /\ handler = "mcp"
    /\ request.json = "object" /\ request.method = "tools/list"
    /\ response.shape = "tools" /\ calls = <<>>

\* C10: no outbound HTTP call, push or reply, is issued while the access
\* token is absent.
C10_NoCallWithoutToken ==
    calls # <<>> => Truthy(CHANNEL_ACCESS_TOKEN)
====
